---- MODULE Spec2Model ----
(***************************************************************************)
(* Model of the EC3 concrete carbon comparison dashboard (src/ec3_app.py). *)
(*                                                                         *)
(* One run of the Streamlit script is a sequential pipeline:               *)
(*   form -> postal code check -> material query -> record conversion ->   *)
(*   outlier removal and counts -> charts                                  *)
(* The external EC3 query is the only source of nondeterminism besides the *)
(* user's form input.                                                      *)
(*                                                                         *)
(* Text is modelled as a sequence of one-character strings.  A quantity    *)
(* string such as "27.6 MPa" is modelled by its two whitespace-separated   *)
(* tokens <<number, unit>>, the number being a count of hundredths.        *)
(* Floating point arithmetic is modelled by exact fixed-point arithmetic.  *)
(***************************************************************************)
EXTENDS Integers, Sequences, FiniteSets, TLC

VARIABLES
    pc,                     \* position of the script run
    submitted,              \* form_submit_button result
    postal_code,            \* st.text_input value
    num_of_materials,       \* st.number_input value
    return_all_bool,        \* st.checkbox value
    postal_int,             \* <<>> until int(postal_code) is assigned
    max_records,            \* ec3_materials.max_records: <<>> = not set by the app
    query,                  \* <<>> or <<arguments of the issued query>>
    mat_records,            \* result of the query
    converted_records,      \* output of the conversion loop
    missing_location_data,  \* plants already warned about
    warnings,               \* st.warning calls of this run, in order
    df,                     \* the data frame after remove_outliers
    data_length_prior,
    data_length_post,
    reported,               \* the two counts written with st.markdown
    chart_df,               \* <<>> or <<data frame given to the charts>>
    map_df                  \* grouped plant counts shown on the map and the table

vars == <<pc, submitted, postal_code, num_of_materials, return_all_bool,
          postal_int, max_records, query, mat_records, converted_records,
          missing_location_data, warnings, df, data_length_prior,
          data_length_post, reported, chart_df, map_df>>

(***************************************************************************)
(* Bounds of the model.                                                    *)
(***************************************************************************)
MaxPostalLen == 6

MaxRecords == 2

MaxStrengthSteps == 200

MaxRows == 5

MaxGwp == 4

(***************************************************************************)
(* Python values that the code inspects with truthiness and isinstance.    *)
(***************************************************************************)
PyNone == [type |-> "NoneType", val |-> ""]

PyStr(s) == [type |-> "str", val |-> s]

\* a dict, written by its repr
PyDict(repr) == [type |-> "dict", val |-> repr]

Truthy(v) ==
    CASE v.type = "NoneType" -> FALSE
      [] v.type = "str" -> v.val # ""
      [] v.type = "dict" -> v.val # "{}"

IsInstanceStr(v) == v.type = "str"

(***************************************************************************)
(* int(text): optional surrounding whitespace, an optional sign, then      *)
(* decimal digits that may be separated by single underscores.             *)
(***************************************************************************)
Digits == {"0", "1", "2", "3", "4", "5", "6", "7", "8", "9"}

DigitValue(c) ==
    CASE c = "0" -> 0 [] c = "1" -> 1 [] c = "2" -> 2 [] c = "3" -> 3
      [] c = "4" -> 4 [] c = "5" -> 5 [] c = "6" -> 6 [] c = "7" -> 7
      [] c = "8" -> 8 [] c = "9" -> 9

RECURSIVE LStrip(_)
LStrip(s) ==
    IF s # <<>> /\ Head(s) = " " THEN LStrip(Tail(s)) ELSE s

RECURSIVE RStrip(_)
RStrip(s) ==
    IF s # <<>> /\ s[Len(s)] = " " THEN RStrip(SubSeq(s, 1, Len(s) - 1)) ELSE s

Strip(s) == RStrip(LStrip(s))

DropSign(s) ==
    IF s # <<>> /\ Head(s) \in {"+", "-"} THEN Tail(s) ELSE s

\* digit (["_"] digit)*
DigitPart(s) ==
    /\ s # <<>>
    /\ \A i \in 1..Len(s) : s[i] \in Digits \cup {"_"}
    /\ s[1] \in Digits
    /\ s[Len(s)] \in Digits
    /\ \A i \in 1..(Len(s) - 1) : ~(s[i] = "_" /\ s[i + 1] = "_")

IntParses(s) == DigitPart(DropSign(Strip(s)))

RECURSIVE Magnitude(_, _)
Magnitude(s, acc) ==
    IF s = <<>> THEN acc
    ELSE IF Head(s) = "_" THEN Magnitude(Tail(s), acc)
    ELSE Magnitude(Tail(s), 10 * acc + DigitValue(Head(s)))

IntValue(s) ==
    LET body == Strip(s)
        mag == Magnitude(DropSign(body), 0)
    IN IF Head(body) = "-" THEN 0 - mag ELSE mag

is_valid_postal_code(code) ==
    IF Len(code) # 5 THEN FALSE
    ELSE IF IntParses(code) THEN TRUE
    ELSE FALSE

(***************************************************************************)
(* Strength conversion (ec3_app.py 163-181).  A strength is held exactly   *)
(* as [cents, sub]: cents hundredths of a psi plus sub/10^8 of a           *)
(* hundredth, 0 <= sub < 10^8.  mpa_to_psi = 145.03773773 is held as the   *)
(* base-10^4 limbs 145 . 0377 3773 so that every product stays in range.   *)
(***************************************************************************)
mpa_to_psi == <<145, 377, 3773>>

ToPsi(number, unit) ==
    CASE unit = "MPa" ->
            LET t2 == number * mpa_to_psi[3]
                t1 == number * mpa_to_psi[2] + (t2 \div 10000)
                t0 == number * mpa_to_psi[1] + (t1 \div 10000)
            IN [cents |-> t0, sub |-> (t1 % 10000) * 10000 + (t2 % 10000)]
      [] unit = "psi" -> [cents |-> number, sub |-> 0]
      [] unit = "ksi" -> [cents |-> number * 1000, sub |-> 0]

\* variant: the ksi branch is missing
KnownUnit_without_ksi(unit) == unit \in {"MPa", "psi"}

KnownUnit(unit) == unit \in {"MPa", "psi", "ksi"}

\* variant: truncation in place of rounding
RoundDiv500_truncating(conc_strength) == conc_strength.cents \div 50000

\* round(conc_strength / 500.0): nearest integer, a tie goes to the even one
RoundDiv500(conc_strength) ==
    LET q == conc_strength.cents \div 50000
        r == conc_strength.cents % 50000
    IN IF r < 25000 THEN q
       ELSE IF r > 25000 \/ conc_strength.sub > 0 THEN q + 1
       ELSE IF q % 2 = 0 THEN q ELSE q + 1

\* int(round(conc_strength / 500.0) * 500.0)
RoundedStrength(conc_strength) == RoundDiv500(conc_strength) * 500

(***************************************************************************)
(* Display names (ec3_app.py 183-194).                                     *)
(***************************************************************************)
DisplayName(v) ==
    IF ~Truthy(v) THEN "Unknown"
    ELSE IF ~IsInstanceStr(v) THEN "Unknown"
    ELSE v.val

HasLocation(plant) ==
    "latitude" \in DOMAIN plant /\ "longitude" \in DOMAIN plant

NewDict(rec, rounded_strength) ==
    [Compressive_Strength_psi |-> rounded_strength,
     GWP |-> rec.gwp[1],
     Plant_Owner |-> DisplayName(rec.plant_or_group.owned_by.name),
     Plant_Name |-> DisplayName(rec.plant_or_group.name),
     Product_Name |-> rec.name,
     Latitude |-> rec.plant_or_group.latitude,
     Longitude |-> rec.plant_or_group.longitude]

NoLocationWarning(plant_local_name) == <<"No location data", plant_local_name>>

InSeq(x, s) == \E i \in 1..Len(s) : s[i] = x

(***************************************************************************)
(* The conversion loop (ec3_app.py 165-212).  acc carries                  *)
(* converted_records, missing_location_data and the warnings issued.       *)
(***************************************************************************)
ConvertOne(rec, acc) ==
    LET split_strength == rec.concrete_compressive_strength_28d
        plant_local_name == DisplayName(rec.plant_or_group.name)
    IN IF ~KnownUnit(split_strength[2]) THEN acc
       ELSE IF ~HasLocation(rec.plant_or_group)
       THEN IF ~InSeq(plant_local_name, acc.missing)
            THEN [acc EXCEPT
                    !.warns = Append(@, NoLocationWarning(plant_local_name)),
                    !.missing = Append(@, plant_local_name)]
            ELSE acc
       ELSE [acc EXCEPT
               !.converted = Append(@,
                   NewDict(rec, RoundedStrength(
                       ToPsi(split_strength[1], split_strength[2]))))]

RECURSIVE ConvertLoop(_, _)
ConvertLoop(recs, acc) ==
    IF recs = <<>> THEN acc
    ELSE ConvertLoop(Tail(recs), ConvertOne(Head(recs), acc))

(***************************************************************************)
(* remove_outliers (ec3_app.py 27-37).  A data frame is the sequence of    *)
(* its rows.  quantile() interpolates linearly between the two nearest     *)
(* order statistics; to stay in the integers q1 and q3 are held in         *)
(* quarters and the two bounds in eighths.                                 *)
(***************************************************************************)
RECURSIVE Insert(_, _)
Insert(x, s) ==
    IF s = <<>> THEN <<x>>
    ELSE IF x <= Head(s) THEN <<x>> \o s
    ELSE <<Head(s)>> \o Insert(x, Tail(s))

RECURSIVE Sorted(_)
Sorted(s) == IF s = <<>> THEN <<>> ELSE Insert(Head(s), Sorted(Tail(s)))

Column(frame, col) == [i \in 1..Len(frame) |-> frame[i][col]]

\* 4 * quantile(quarters / 4) of a non-empty column
QuantileQuarters(values, quarters) ==
    LET s == Sorted(values)
        i == (quarters * (Len(s) - 1)) \div 4
        g == (quarters * (Len(s) - 1)) % 4
    IN IF g = 0 THEN 4 * s[i + 1]
       ELSE 4 * s[i + 1] + (s[i + 2] - s[i + 1]) * g

\* 8 * (q1 - 1.5 * iqr)
LowerBound8(frame, col) ==
    LET q1 == QuantileQuarters(Column(frame, col), 1)
        q3 == QuantileQuarters(Column(frame, col), 3)
        iqr == q3 - q1
    IN 2 * q1 - 3 * iqr

\* 8 * (q3 + 1.5 * iqr)
UpperBound8(frame, col) ==
    LET q1 == QuantileQuarters(Column(frame, col), 1)
        q3 == QuantileQuarters(Column(frame, col), 3)
        iqr == q3 - q1
    IN 2 * q3 + 3 * iqr

\* variant: only the upper bound is applied
OutlierMask_upper_only(frame, col_names, row) ==
    \E k \in 1..Len(col_names) :
        8 * row[col_names[k]] > UpperBound8(frame, col_names[k])

OutlierMask(frame, col_names, row) ==
    \E k \in 1..Len(col_names) :
        \/ 8 * row[col_names[k]] < LowerBound8(frame, col_names[k])
        \/ 8 * row[col_names[k]] > UpperBound8(frame, col_names[k])

remove_outliers(frame, col_names) ==
    LET Keep(row) == ~OutlierMask(frame, col_names, row)
    IN SelectSeq(frame, Keep)

(***************************************************************************)
(* Counts and charts (ec3_app.py 214-302).                                 *)
(***************************************************************************)
\* variant: the count before the filter is reported
ReportedCounts_prior(prior, post) == <<prior, prior - post>>

ReportedCounts(prior, post) == <<post, prior - post>>

GroupKey(row) ==
    [Plant_Owner |-> row.Plant_Owner, Plant_Name |-> row.Plant_Name,
     Latitude |-> row.Latitude, Longitude |-> row.Longitude]

MapFrame(frame) ==
    { [key |-> k,
       EPD_Count |-> Cardinality({i \in 1..Len(frame) : GroupKey(frame[i]) = k})] :
      k \in {GroupKey(frame[i]) : i \in 1..Len(frame)} }

(***************************************************************************)
(* The query set-up (ec3_app.py 146-152).                                  *)
(***************************************************************************)
\* variant: the maximum is applied unconditionally
MaxRecordsSetting_always(return_all, maximum) == <<maximum>>

MaxRecordsSetting(return_all, maximum) ==
    IF ~return_all THEN <<maximum>> ELSE <<>>

QueryCall(code_int, return_all, limit) ==
    [material_type |-> "ReadyMix", postal_code |-> code_int,
     return_all |-> return_all, max_records |-> limit, only_valid |-> TRUE]

\* variant: the empty result is not detected
NoRecordsFound_never(records) == FALSE

NoRecordsFound(records) == Len(records) = 0

(***************************************************************************)
(* Input domains.                                                          *)
(***************************************************************************)
Text(n, alphabet) == [1..n -> alphabet]

PostalSamples ==
    { <<"1", "2", "3", "4", "5">>, <<"1", "2", "3", "4">>,
      <<"1", "2", "a", "4", "5">>, <<"-", "1", "2", "3", "4">> }

PostalTexts ==
    UNION { Text(n, {"7", "-", " ", "_", "a"}) : n \in 0..MaxPostalLen }

Units == {"MPa", "psi", "ksi", "kPa"}

FirstIdentity == [name |-> PyStr("North Plant"), owner |-> PyStr("Acme")]

Identities ==
    { FirstIdentity, [name |-> PyNone, owner |-> PyDict("{'id': 1}")] }

Locations == {"both", "latitude", "longitude", "none"}

PlantOrGroup(identity, location) ==
    CASE location = "both" ->
            [name |-> identity.name, owned_by |-> [name |-> identity.owner],
             latitude |-> 40, longitude |-> -75]
      [] location = "latitude" ->
            [name |-> identity.name, owned_by |-> [name |-> identity.owner],
             latitude |-> 40]
      [] location = "longitude" ->
            [name |-> identity.name, owned_by |-> [name |-> identity.owner],
             longitude |-> -75]
      [] location = "none" ->
            [name |-> identity.name, owned_by |-> [name |-> identity.owner]]

RawRecord(number, unit, plant, gwp, name) ==
    [concrete_compressive_strength_28d |-> <<number, unit>>,
     gwp |-> <<gwp, "kgCO2e">>,
     name |-> name,
     plant_or_group |-> plant]

SampleRecords ==
    { RawRecord(3000, u, PlantOrGroup(id, loc), 30000, "Mix") :
        u \in Units, id \in Identities, loc \in Locations }

QueryResults == UNION { [1..n -> SampleRecords] : n \in 0..MaxRecords }

StrengthNumbers ==
    {25 * k : k \in 0..MaxStrengthSteps} \cup {2500 * k : k \in 0..MaxStrengthSteps}

StrengthResults ==
    { << RawRecord(n, u, PlantOrGroup(FirstIdentity, "both"), 30000, "Mix") >> :
        n \in StrengthNumbers, u \in Units }

\* a result whose records differ in GWP and product name only
GwpResult(gs) ==
    [i \in 1..Len(gs) |->
        RawRecord(400000, "psi", PlantOrGroup(FirstIdentity, "both"),
                  gs[i], <<"Mix", i>>)]

(***************************************************************************)
(* The script run.                                                         *)
(***************************************************************************)
Init ==
    /\ pc = "form"
    /\ submitted = FALSE
    /\ postal_code = <<>>
    /\ num_of_materials = 500
    /\ return_all_bool = FALSE
    /\ postal_int = <<>>
    /\ max_records = <<>>
    /\ query = <<>>
    /\ mat_records = <<>>
    /\ converted_records = <<>>
    /\ missing_location_data = <<>>
    /\ warnings = <<>>
    /\ df = <<>>
    /\ data_length_prior = 0
    /\ data_length_post = 0
    /\ reported = <<>>
    /\ chart_df = <<>>
    /\ map_df = {}

\* ec3_app.py 93-152: the form is submitted, the postal code is checked
\* and the query is issued
SubmitForm(code, maximum, return_all) ==
    /\ pc = "form"
    /\ submitted' = TRUE
    /\ postal_code' = code
    /\ num_of_materials' = maximum
    /\ return_all_bool' = return_all
    /\ IF ~is_valid_postal_code(code)
       THEN /\ warnings' = Append(warnings, "Invalid postal code")
            /\ pc' = "stopped"
            /\ UNCHANGED <<postal_int, max_records, query>>
       ELSE /\ postal_int' = <<IntValue(code)>>
            /\ max_records' = MaxRecordsSetting(return_all, maximum)
            /\ query' = <<QueryCall(IntValue(code), return_all,
                                    MaxRecordsSetting(return_all, maximum))>>
            /\ pc' = "query"
            /\ UNCHANGED warnings
    /\ UNCHANGED <<mat_records, converted_records, missing_location_data, df,
                   data_length_prior, data_length_post, reported, chart_df,
                   map_df>>

Submit ==
    /\ pc = "form"
    /\ \E code \in PostalSamples, maximum \in {10, 500}, return_all \in BOOLEAN :
        SubmitForm(code, maximum, return_all)

SubmitText ==
    /\ pc = "form"
    /\ \E code \in PostalTexts, return_all \in BOOLEAN :
        SubmitForm(code, 500, return_all)

\* ec3_app.py 152-157: the query returns, an empty result stops the run
QueryReturn ==
    /\ pc = "query"
    /\ \E records \in QueryResults :
        /\ mat_records' = records
        /\ IF NoRecordsFound(records)
           THEN /\ warnings' = Append(warnings, "No material records found")
                /\ pc' = "stopped"
           ELSE /\ pc' = "clean"
                /\ UNCHANGED warnings
    /\ UNCHANGED <<submitted, postal_code, num_of_materials, return_all_bool,
                   postal_int, max_records, query, converted_records,
                   missing_location_data, df, data_length_prior,
                   data_length_post, reported, chart_df, map_df>>

\* ec3_app.py 163-212
CleanAndConvert ==
    /\ pc = "clean"
    /\ LET result == ConvertLoop(mat_records,
                         [converted |-> <<>>, missing |-> <<>>, warns |-> warnings])
       IN /\ converted_records' = result.converted
          /\ missing_location_data' = result.missing
          /\ warnings' = result.warns
    /\ pc' = "filter"
    /\ UNCHANGED <<submitted, postal_code, num_of_materials, return_all_bool,
                   postal_int, max_records, query, mat_records, df,
                   data_length_prior, data_length_post, reported, chart_df,
                   map_df>>

\* ec3_app.py 214-229; a frame built from no records has no GWP column and
\* remove_outliers raises KeyError
RemoveOutliersAndReport ==
    /\ pc = "filter"
    /\ data_length_prior' = Len(converted_records)
    /\ IF converted_records = <<>>
       THEN /\ pc' = "crashed"
            /\ UNCHANGED <<df, data_length_post, reported>>
       ELSE /\ df' = remove_outliers(converted_records, <<"GWP">>)
            /\ data_length_post' = Len(df')
            /\ reported' = ReportedCounts(data_length_prior', data_length_post')
            /\ pc' = "chart"
    /\ UNCHANGED <<submitted, postal_code, num_of_materials, return_all_bool,
                   postal_int, max_records, query, mat_records,
                   converted_records, missing_location_data, warnings,
                   chart_df, map_df>>

\* ec3_app.py 234-302
RenderCharts ==
    /\ pc = "chart"
    /\ chart_df' = <<df>>
    /\ map_df' = MapFrame(df)
    /\ pc' = "done"
    /\ UNCHANGED <<submitted, postal_code, num_of_materials, return_all_bool,
                   postal_int, max_records, query, mat_records,
                   converted_records, missing_location_data, warnings, df,
                   data_length_prior, data_length_post, reported>>

\* Streamlit reruns the script from the top with a fresh form
NewRun ==
    /\ pc \in {"stopped", "crashed", "done"}
    /\ pc' = "form"
    /\ submitted' = FALSE
    /\ postal_code' = <<>>
    /\ num_of_materials' = 500
    /\ return_all_bool' = FALSE
    /\ postal_int' = <<>>
    /\ max_records' = <<>>
    /\ query' = <<>>
    /\ mat_records' = <<>>
    /\ converted_records' = <<>>
    /\ missing_location_data' = <<>>
    /\ warnings' = <<>>
    /\ df' = <<>>
    /\ data_length_prior' = 0
    /\ data_length_post' = 0
    /\ reported' = <<>>
    /\ chart_df' = <<>>
    /\ map_df' = {}

Next ==
    \/ Submit
    \/ QueryReturn
    \/ CleanAndConvert
    \/ RemoveOutliersAndReport
    \/ RenderCharts
    \/ NewRun

Spec == Init /\ [][Next]_vars

(***************************************************************************)
(* The run just after a query for postal code 12345 returned records.      *)
(***************************************************************************)
Returned(records) ==
    /\ pc = "clean"
    /\ submitted = TRUE
    /\ postal_code = <<"1", "2", "3", "4", "5">>
    /\ num_of_materials = 500
    /\ return_all_bool = FALSE
    /\ postal_int = <<IntValue(postal_code)>>
    /\ max_records = MaxRecordsSetting(return_all_bool, num_of_materials)
    /\ query = <<QueryCall(IntValue(postal_code), return_all_bool, max_records)>>
    /\ mat_records = records
    /\ converted_records = <<>>
    /\ missing_location_data = <<>>
    /\ warnings = <<>>
    /\ df = <<>>
    /\ data_length_prior = 0
    /\ data_length_post = 0
    /\ reported = <<>>
    /\ chart_df = <<>>
    /\ map_df = {}

\* the postal code check over every short text
InitPostal == Init

NextPostal == SubmitText

SpecPostal == InitPostal /\ [][NextPostal]_vars

\* the strength conversion over a range of single-record results
InitStrength == \E records \in StrengthResults : Returned(records)

NextStrength == CleanAndConvert

SpecStrength == InitStrength /\ [][NextStrength]_vars

\* the outlier filter over every short GWP column
InitOutliers ==
    \E n \in 1..MaxRows :
        \E gs \in [1..n -> 0..MaxGwp] : Returned(GwpResult(gs))

NextOutliers ==
    \/ CleanAndConvert
    \/ RemoveOutliersAndReport
    \/ RenderCharts

SpecOutliers == InitOutliers /\ [][NextOutliers]_vars

(***************************************************************************)
(* Properties.                                                             *)
(***************************************************************************)
StrengthOf(rec) == rec.concrete_compressive_strength_28d

Eligible(rec) ==
    /\ StrengthOf(rec)[2] \in {"MPa", "psi", "ksi"}
    /\ {"latitude", "longitude"} \subseteq DOMAIN rec.plant_or_group

EligibleRecords == SelectSeq(mat_records, Eligible)

\* the strength in psi, as [cents, sub]
InPsi(number, unit) ==
    CASE unit = "psi" -> [cents |-> number, sub |-> 0]
      [] unit = "ksi" -> [cents |-> 1000 * number, sub |-> 0]
      [] unit = "MPa" -> ToPsi(number, "MPa")

\* |value psi - strength| <= 250 psi
Within250(value, strength) ==
    LET d == 100 * value - strength.cents
    IN IF d >= 0 THEN d <= 25000
       ELSE (0 - d) < 25000 \/ ((0 - d) = 25000 /\ strength.sub = 0)

Converted == pc \in {"filter", "chart", "done", "crashed"}

\* C1: every converted record's 'Compressive Strength [psi]' is the raw
\* strength converted to psi (psi x 1, ksi x 1000, MPa x 145.03773773)
\* rounded to the nearest 500 psi: a multiple of 500 within 250 psi of it.
C1_StrengthRoundedToNearest500 ==
    Converted =>
        /\ Len(converted_records) = Len(EligibleRecords)
        /\ \A i \in 1..Len(converted_records) :
            LET s == StrengthOf(EligibleRecords[i])
                value == converted_records[i].Compressive_Strength_psi
            IN /\ value % 500 = 0
               /\ Within250(value, InPsi(s[1], s[2]))
               /\ s[2] = "MPa" =>
                    /\ 145 * s[1] <= InPsi(s[1], s[2]).cents
                    /\ InPsi(s[1], s[2]).cents <= 146 * s[1]
                    /\ InPsi(s[1], s[2]).sub \in 0..99999999

\* 27.50 MPa = 3988.5 psi is shown as 4000 psi
C1_Witness ==
    /\ pc = "filter"
    /\ Len(mat_records) = 1
    /\ StrengthOf(mat_records[1]) = <<2750, "MPa">>
    /\ Len(converted_records) = 1
    /\ converted_records[1].Compressive_Strength_psi = 4000

Filtered == pc \in {"chart", "done"}

\* the k-th smallest value of a column, by counting
OrderStatistic(values, k) ==
    CHOOSE v \in {values[i] : i \in 1..Len(values)} :
        /\ Cardinality({i \in 1..Len(values) : values[i] < v}) < k
        /\ k <= Cardinality({i \in 1..Len(values) : values[i] <= v})

\* 4 * the (quarters/4)-quantile with linear interpolation
Quartile4(values, quarters) ==
    LET h == quarters * (Len(values) - 1)
        below == OrderStatistic(values, (h \div 4) + 1)
        above == IF h % 4 = 0 THEN below
                 ELSE OrderStatistic(values, (h \div 4) + 2)
    IN (4 - (h % 4)) * below + (h % 4) * above

\* q1 - 1.5*iqr <= v <= q3 + 1.5*iqr over the GWP column before the filter
InsideIqrBounds(row) ==
    LET values == [i \in 1..Len(converted_records) |-> converted_records[i].GWP]
        q1 == Quartile4(values, 1)
        q3 == Quartile4(values, 3)
    IN /\ 2 * q1 - 3 * (q3 - q1) <= 8 * row.GWP
       /\ 8 * row.GWP <= 2 * q3 + 3 * (q3 - q1)

\* C2: remove_outliers(df, [col]) returns exactly the rows with
\* q1 - 1.5*iqr <= v <= q3 + 1.5*iqr, unmodified and in their original order.
C2_RemoveOutliersKeepsExactlyInsideRows ==
    Filtered => df = SelectSeq(converted_records, InsideIqrBounds)

\* a row below the lower bound and a row above the upper bound were removed
\* and a row was kept
C2_Witness ==
    /\ pc = "chart"
    /\ Len(df) > 0
    /\ \E i, j \in 1..Len(converted_records) :
        /\ converted_records[i].GWP < converted_records[j].GWP
        /\ ~InSeq(converted_records[i], df)
        /\ ~InSeq(converted_records[j], df)

FiveDigits(code) ==
    Len(code) = 5 /\ \A i \in 1..Len(code) : code[i] \in Digits

\* C3: a postal code passes validation only if it is exactly five decimal
\* digits; every other text is rejected with the invalid postal code warning.
C3_OnlyFiveDigitCodesPass ==
    submitted =>
        IF FiveDigits(postal_code)
        THEN query # <<>>
        ELSE query = <<>> /\ pc = "stopped"
             /\ warnings = <<"Invalid postal code">>

\* C4: with 'Return all matches' checked the maximum is never applied and the
\* query has return_all true; unchecked, max_records is the user's maximum and
\* the query has return_all false.
C4_ReturnAllIgnoresMaximum ==
    query # <<>> =>
        IF return_all_bool
        THEN /\ max_records = <<>>
             /\ query[1].max_records = <<>>
             /\ query[1].return_all = TRUE
        ELSE /\ max_records = <<num_of_materials>>
             /\ query[1].max_records = <<num_of_materials>>
             /\ query[1].return_all = FALSE

C4_Witness ==
    /\ query # <<>>
    /\ return_all_bool
    /\ num_of_materials = 10
    /\ pc = "query"

\* C5: the reported number of materials is the number of rows left after
\* outlier removal (the rows charted), the reported number of outliers is the
\* number of converted records minus it, is never negative, and the two sum
\* to the number of converted records.
C5_ReportedCountsMatchChartedRows ==
    Filtered =>
        /\ Len(reported) = 2
        /\ reported[1] = Len(df)
        /\ pc = "done" => chart_df = <<df>> /\ reported[1] = Len(chart_df[1])
        /\ reported[2] = Len(converted_records) - Len(df)
        /\ reported[2] >= 0
        /\ reported[1] + reported[2] = Len(converted_records)

C5_Witness ==
    /\ pc = "done"
    /\ reported[2] > 0
    /\ reported[1] > 0
    /\ Len(chart_df[1]) = reported[1]

\* C6: the query is issued only after submission with a postal code that
\* passed validation (an invalid one gives the warning and a stop without a
\* query); cleaning, outlier removal and charting happen only after a query
\* that returned a record (an empty result gives the warning and a stop
\* without chart, map or table).
C6_StepsGatedInOrder ==
    /\ query # <<>> =>
        submitted /\ is_valid_postal_code(postal_code) /\ postal_int # <<>>
    /\ (submitted /\ ~is_valid_postal_code(postal_code)) =>
        /\ pc = "stopped"
        /\ query = <<>>
        /\ warnings = <<"Invalid postal code">>
    /\ (\/ pc \in {"clean", "filter", "chart", "done", "crashed"}
        \/ converted_records # <<>>
        \/ df # <<>>
        \/ reported # <<>>
        \/ chart_df # <<>>
        \/ map_df # {}) =>
        query # <<>> /\ Len(mat_records) >= 1
    /\ (query # <<>> /\ pc # "query" /\ mat_records = <<>>) =>
        /\ pc = "stopped"
        /\ warnings = <<"No material records found">>
        /\ converted_records = <<>>
        /\ reported = <<>>
        /\ chart_df = <<>>
        /\ map_df = {}

\* an empty result stopped the run
C6_Witness ==
    /\ pc = "stopped"
    /\ query # <<>>
    /\ mat_records = <<>>
    /\ warnings = <<"No material records found">>

DisplayFields ==
    {"Compressive_Strength_psi", "GWP", "Plant_Owner", "Plant_Name",
     "Product_Name", "Latitude", "Longitude"}

\* C7: a raw record is converted iff its unit is MPa, psi or ksi and its
\* plant has both latitude and longitude; other units are skipped without a
\* warning, records lacking location are skipped, and the converted records
\* keep the raw order with exactly the seven display fields.
C7_ConvertedIffKnownUnitAndLocated ==
    Converted =>
        /\ Len(converted_records) = Len(EligibleRecords)
        /\ \A i \in 1..Len(converted_records) :
            /\ DOMAIN converted_records[i] = DisplayFields
            /\ converted_records[i].Product_Name = EligibleRecords[i].name
            /\ converted_records[i].GWP = EligibleRecords[i].gwp[1]
            /\ converted_records[i].Latitude =
                   EligibleRecords[i].plant_or_group.latitude
            /\ converted_records[i].Longitude =
                   EligibleRecords[i].plant_or_group.longitude
            /\ converted_records[i].Plant_Name \in
                   {EligibleRecords[i].plant_or_group.name.val, "Unknown"}
            /\ converted_records[i].Compressive_Strength_psi =
                   RoundedStrength(InPsi(StrengthOf(EligibleRecords[i])[1],
                                         StrengthOf(EligibleRecords[i])[2]))
        /\ \A w \in 1..Len(warnings) :
            \E k \in 1..Len(mat_records) :
                /\ StrengthOf(mat_records[k])[2] \in {"MPa", "psi", "ksi"}
                /\ ~({"latitude", "longitude"} \subseteq
                        DOMAIN mat_records[k].plant_or_group)
                /\ warnings[w][1] = "No location data"
                /\ warnings[w][2] \in
                       {mat_records[k].plant_or_group.name.val, "Unknown"}

\* of two records the first has an unknown unit, the second is converted
C7_Witness ==
    /\ pc = "filter"
    /\ Len(mat_records) = 2
    /\ StrengthOf(mat_records[1])[2] = "kPa"
    /\ Eligible(mat_records[2])
    /\ StrengthOf(mat_records[2])[2] = "ksi"
    /\ Len(converted_records) = 1
    /\ warnings = <<>>

====
